---- MODULE Spec2Model ----
(***************************************************************************)
(* Wave function collapse driver of wfc3d (src/src/lib.rs): collapse,      *)
(* run_propagation and find_next_to_collapse, run over a one-dimensional   *)
(* chain of cells whose state is a set of values, with the rule "adjacent  *)
(* cells must differ".  The State, Space and CollapseRule collaborators    *)
(* live in modules that lib.rs only declares (set_state, space,            *)
(* collapse_rule); they are modelled from their documented contracts.      *)
(***************************************************************************)
EXTENDS Integers, Sequences, FiniteSets, TLC

VARIABLES
    space,            \* Sp: coordinate -> St (set of remaining values)
    unresolved_set,   \* HashSet<Coordinate>, kept in its iteration order
    to_propagate,     \* VecDeque<Coordinate>, the work queue
    to_collapse,      \* coordinate returned by find_next_to_collapse
    pc,               \* position inside collapse
    init_space,       \* history: the space collapse was called with
    observed,         \* history: coordinates passed to rule.observe, in order
    tie_draws,        \* history: indices drawn by gen_range in find_next_to_collapse
    observe_draws,    \* history: choices made by rule.observe
    collapse_called,  \* history: coordinates rule.collapse was invoked on
    prop_resolved,    \* history: cells rule.collapse brought from entropy > 0 to 0
    first_run,        \* history: draws and result of an earlier completed run
    pass_queued,      \* history: coordinates held by the queue during this pass
    passes,           \* history: number of times run_propagation has returned
    shrinks,          \* history: number of steps that lowered a cell's entropy
    collapse_calls,   \* history: number of rule.collapse invocations
    first_pass        \* history: the seed order and the space when the initial
                      \* pass returned

vars == <<space, unresolved_set, to_propagate, to_collapse, pc, init_space,
          observed, tie_draws, observe_draws, collapse_called, prop_resolved,
          first_run, pass_queued, passes, shrinks, collapse_calls, first_pass>>

\* the elements of a sequence
Range(seq) == {seq[i] : i \in DOMAIN seq}

\* ---------------------------------------------------------------- bounds
MaxLen == 3

\* ------------------------------------------------------------- constants
\* std::u32::MAX, the start value of lowest_entropy; held as the largest
\* integer TLC represents (entropies here never exceed |Values|)
U32Max == 2147483647

Values == {"A", "B", "C"}

NoCoord == -1

\* Option<St>::None / Some(st)
NoState == [some |-> FALSE, st |-> {}]

SomeState(s) == [some |-> TRUE, st |-> s]

\* ------------------------------------------------- collaborators (traits)
\* entropy as the plain number of possibilities: a single value counts 1
EntropyAsCount(s) == Cardinality(s)

\* State::entropy: 0 for a resolved cell (one possibility or none),
\* otherwise the number of remaining possibilities.
Entropy(s) == IF Cardinality(s) <= 1 THEN 0 ELSE Cardinality(s)

\* Space::coordinate_list
CoordinateList(sp) == DOMAIN sp

\* CollapseRule::neighbor_offsets of the chain rule
NeighborOffsets == <<-1, 1>>

\* Space::neighbors: Some(c + delta) inside the chain, None past its ends
SpaceNeighbors(sp, c, dirs) ==
    [i \in 1..Len(dirs) |->
        IF (c + dirs[i]) \in DOMAIN sp THEN c + dirs[i] ELSE NoCoord]

\* CollapseRule::collapse of "adjacent cells must differ": keep the values
\* that every present neighbor can still differ from.
RuleCollapse(cell, nstates) ==
    {v \in cell : \A i \in DOMAIN nstates :
        nstates[i].some => \E w \in nstates[i].st : w # v}

\* CollapseRule::observe: the states the rule may leave the cell in
RuleObserve(cell, nstates) ==
    IF cell = {} THEN {{}} ELSE {{v} : v \in cell}

\* ------------------------------------------------------- driver helpers
\* neighbor_states[i] = neighbors[i].map(|coord| space[coord].clone())
NeighborStates(sp, nbrs) ==
    [i \in DOMAIN nbrs |->
        IF nbrs[i] = NoCoord THEN NoState ELSE SomeState(sp[nbrs[i]])]

\* the seeding test inverted: the resolved coordinates are kept
SeedUnresolvedInverted(sp) == {c \in CoordinateList(sp) : Entropy(sp[c]) = 0}

\* the coordinates collapse inserts into unresolved_set
SeedUnresolved(sp) == {c \in CoordinateList(sp) : Entropy(sp[c]) > 0}

\* the orders a HashSet holding S may iterate in
IterationOrders(S) ==
    {s \in [1..Cardinality(S) -> S] : \A i, j \in DOMAIN s : s[i] = s[j] => i = j}

\* a start value of 0 for lowest_entropy: no entropy is ever below it
ScanStartZero ==
    [lowest_entropy |-> 0, lowest_entropy_set |-> <<>>, resolved_set |-> {}]

\* find_next_to_collapse before its loop
ScanStart ==
    [lowest_entropy |-> U32Max, lowest_entropy_set |-> <<>>, resolved_set |-> {}]

\* the loop body without its entropy == 0 branch
ScanStepNoResolved(p, unresolved, entropy) ==
    IF entropy < p.lowest_entropy
    THEN [p EXCEPT !.lowest_entropy = entropy,
                   !.lowest_entropy_set = <<unresolved>>]
    ELSE IF entropy = p.lowest_entropy
    THEN [p EXCEPT !.lowest_entropy_set = Append(@, unresolved)]
    ELSE p

\* the loop body without the clear() on a new lowest entropy
ScanStepNoReset(p, unresolved, entropy) ==
    IF entropy = 0
    THEN [p EXCEPT !.resolved_set = @ \cup {unresolved}]
    ELSE IF entropy < p.lowest_entropy
    THEN [p EXCEPT !.lowest_entropy = entropy,
                   !.lowest_entropy_set = Append(@, unresolved)]
    ELSE IF entropy = p.lowest_entropy
    THEN [p EXCEPT !.lowest_entropy_set = Append(@, unresolved)]
    ELSE p

\* one iteration of the loop of find_next_to_collapse
ScanStep(p, unresolved, entropy) ==
    IF entropy = 0
    THEN [p EXCEPT !.resolved_set = @ \cup {unresolved}]
    ELSE IF entropy < p.lowest_entropy
    THEN [p EXCEPT !.lowest_entropy = entropy,
                   !.lowest_entropy_set = <<unresolved>>]
    ELSE IF entropy = p.lowest_entropy
    THEN [p EXCEPT !.lowest_entropy_set = Append(@, unresolved)]
    ELSE p

\* find_next_to_collapse after the first i items of unresolved_set
RECURSIVE Scan(_, _, _)
Scan(unres, sp, i) ==
    IF i = 0
    THEN ScanStart
    ELSE ScanStep(Scan(unres, sp, i - 1), unres[i], Entropy(sp[unres[i]]))

\* the retain left out: resolved coordinates stay in the set
RetainEverything(unres, resolved) == unres

\* the retain test without its negation: the undecided coordinates go
RetainInverted(unres, resolved) == SelectSeq(unres, LAMBDA x : x \in resolved)

\* unresoved_set.retain(|x| !resolved_set.contains(x))
Retain(unres, resolved) == SelectSeq(unres, LAMBDA x : x \notin resolved)

\* the shrink test the wrong way round: nothing is ever pushed
ToEnqueueFlipped(sp, nbrs, entropy_before, entropy_after) ==
    IF entropy_after > entropy_before
    THEN SelectSeq(nbrs, LAMBDA nb : nb # NoCoord /\ Entropy(sp[nb]) # 0)
    ELSE <<>>

\* the neighbor test the wrong way round: only resolved neighbors are pushed
ToEnqueueResolvedOnly(sp, nbrs, entropy_before, entropy_after) ==
    IF entropy_after < entropy_before
    THEN SelectSeq(nbrs, LAMBDA nb : nb # NoCoord /\ Entropy(sp[nb]) = 0)
    ELSE <<>>

\* <= for <: the neighbors are pushed also when the cell did not shrink
ToEnqueueAlways(sp, nbrs, entropy_before, entropy_after) ==
    IF entropy_after <= entropy_before
    THEN SelectSeq(nbrs, LAMBDA nb : nb # NoCoord /\ Entropy(sp[nb]) # 0)
    ELSE <<>>

\* the neighbors run_propagation pushes after processing one cell
ToEnqueue(sp, nbrs, entropy_before, entropy_after) ==
    IF entropy_after < entropy_before
    THEN SelectSeq(nbrs, LAMBDA nb : nb # NoCoord /\ Entropy(sp[nb]) # 0)
    ELSE <<>>

\* the push loop left after the first present neighbor
ObservedNeighborsFirstOnly(nbrs) ==
    LET present == SelectSeq(nbrs, LAMBDA nb : nb # NoCoord)
    IN  IF present = <<>> THEN <<>> ELSE <<Head(present)>>

\* the neighbors collapse pushes after an observation
ObservedNeighbors(nbrs) == SelectSeq(nbrs, LAMBDA nb : nb # NoCoord)

\* ------------------------------------------------------------ initial state
\* every chain of at most MaxLen cells over Values
Chains == UNION {[0..(n - 1) -> SUBSET Values] : n \in 1..MaxLen}

\* five cells in a row, each initially {A, B}
AllAB5 == [c \in 0..4 |-> {"A", "B"}]

\* the same chain with cell 0 pre-collapsed to {A}
Seeded5 == [c \in 0..4 |-> IF c = 0 THEN {"A"} ELSE {"A", "B"}]

\* chain of length 3, cells 0 and 2 pre-seeded to {A}
Seeded3 == [c \in 0..2 |-> IF c = 1 THEN {"A", "B"} ELSE {"A"}]

\* chain of length 4, both ends pre-seeded to {A}: no alternation exists
Ends4 == [c \in 0..3 |-> IF c \in {0, 3} THEN {"A"} ELSE {"A", "B"}]

Scenarios == {AllAB5, Seeded5, Seeded3, Ends4}

NoPass(sp) == [order |-> <<>>, space |-> sp]

NoRun(sp) ==
    [valid |-> FALSE, ties |-> <<>>, choices |-> <<>>, final |-> sp,
     pass |-> NoPass(sp)]

InitFrom(S) ==
    /\ space \in S
    /\ init_space = space
    /\ unresolved_set = <<>>
    /\ to_propagate = <<>>
    /\ to_collapse = NoCoord
    /\ pc = "seed"
    /\ observed = <<>>
    /\ tie_draws = <<>>
    /\ observe_draws = <<>>
    /\ collapse_called = {}
    /\ prop_resolved = {}
    /\ first_run = NoRun(space)
    /\ pass_queued = {}
    /\ passes = 0
    /\ shrinks = 0
    /\ collapse_calls = 0
    /\ first_pass = NoPass(space)

Init == InitFrom(Chains \cup Scenarios)

\* ------------------------------------------------------------------ actions
\* collapse, up to the first call of run_propagation
Seed ==
    /\ pc = "seed"
    /\ \E order \in IterationOrders(SeedUnresolved(space)) :
          /\ unresolved_set' = order
          /\ to_propagate' = order
          /\ pass_queued' = Range(order)
    /\ pc' = "propagate"
    /\ UNCHANGED <<space, to_collapse, init_space, observed, tie_draws,
                   observe_draws, collapse_called, prop_resolved, first_run,
                   passes, shrinks, collapse_calls, first_pass>>

\* the front of the queue is read but not removed when the cell is skipped
PropagateSkipNoPop ==
    /\ pc = "propagate"
    /\ to_propagate # <<>>
    /\ Entropy(space[Head(to_propagate)]) = 0
    /\ UNCHANGED vars

\* the entropy_before != 0 test left out: the rule is run on the popped cell
PropagateSkipCallsRule ==
    /\ pc = "propagate"
    /\ to_propagate # <<>>
    /\ LET propagating == Head(to_propagate)
           neighbors == SpaceNeighbors(space, propagating, NeighborOffsets)
           neighbor_states == NeighborStates(space, neighbors)
       IN  /\ Entropy(space[propagating]) = 0
           /\ space' = [space EXCEPT
                 ![propagating] = RuleCollapse(space[propagating], neighbor_states)]
    /\ to_propagate' = Tail(to_propagate)
    /\ collapse_calls' = collapse_calls + 1
    /\ UNCHANGED <<unresolved_set, to_collapse, pc, init_space, observed,
                   tie_draws, observe_draws, collapse_called, prop_resolved,
                   first_run, pass_queued, passes, shrinks, first_pass>>

\* run_propagation: a popped cell of entropy 0 is skipped
PropagateSkip ==
    /\ pc = "propagate"
    /\ to_propagate # <<>>
    /\ Entropy(space[Head(to_propagate)]) = 0
    /\ to_propagate' = Tail(to_propagate)
    /\ UNCHANGED <<space, unresolved_set, to_collapse, pc, init_space, observed,
                   tie_draws, observe_draws, collapse_called, prop_resolved,
                   first_run, pass_queued, passes, shrinks, collapse_calls,
                   first_pass>>

\* the collapsed state is stored at the first neighbor's coordinate
PropagateCollapseWrongCell ==
    /\ pc = "propagate"
    /\ to_propagate # <<>>
    /\ LET propagating == Head(to_propagate)
           entropy_before == Entropy(space[propagating])
           neighbors == SpaceNeighbors(space, propagating, NeighborOffsets)
           neighbor_states == NeighborStates(space, neighbors)
           present == ObservedNeighbors(neighbors)
           target == IF present = <<>> THEN propagating ELSE Head(present)
           after == [space EXCEPT
                       ![target] = RuleCollapse(space[propagating], neighbor_states)]
           entropy_after == Entropy(after[propagating])
       IN  /\ entropy_before # 0
           /\ space' = after
           /\ to_propagate' = Tail(to_propagate) \o
                 ToEnqueue(after, neighbors, entropy_before, entropy_after)
           /\ collapse_called' = collapse_called \cup {propagating}
           /\ prop_resolved' = IF entropy_after = 0
                               THEN prop_resolved \cup {propagating}
                               ELSE prop_resolved
           /\ pass_queued' = pass_queued \cup
                 Range(ToEnqueue(after, neighbors, entropy_before, entropy_after))
           /\ shrinks' = IF \E c \in DOMAIN space :
                                Entropy(after[c]) < Entropy(space[c])
                         THEN shrinks + 1 ELSE shrinks
           /\ collapse_calls' = collapse_calls + 1
    /\ UNCHANGED <<unresolved_set, to_collapse, pc, init_space, observed,
                   tie_draws, observe_draws, first_run, passes, first_pass>>

\* run_propagation: a popped cell of entropy > 0 is given to rule.collapse
PropagateCollapse ==
    /\ pc = "propagate"
    /\ to_propagate # <<>>
    /\ LET propagating == Head(to_propagate)
           entropy_before == Entropy(space[propagating])
           neighbors == SpaceNeighbors(space, propagating, NeighborOffsets)
           neighbor_states == NeighborStates(space, neighbors)
           after == [space EXCEPT
                       ![propagating] = RuleCollapse(space[propagating], neighbor_states)]
           entropy_after == Entropy(after[propagating])
       IN  /\ entropy_before # 0
           /\ space' = after
           /\ to_propagate' = Tail(to_propagate) \o
                 ToEnqueue(after, neighbors, entropy_before, entropy_after)
           /\ collapse_called' = collapse_called \cup {propagating}
           /\ prop_resolved' = IF entropy_after = 0
                               THEN prop_resolved \cup {propagating}
                               ELSE prop_resolved
           /\ pass_queued' = pass_queued \cup
                 Range(ToEnqueue(after, neighbors, entropy_before, entropy_after))
           /\ shrinks' = IF \E c \in DOMAIN space :
                                Entropy(after[c]) < Entropy(space[c])
                         THEN shrinks + 1 ELSE shrinks
           /\ collapse_calls' = collapse_calls + 1
    /\ UNCHANGED <<unresolved_set, to_collapse, pc, init_space, observed,
                   tie_draws, observe_draws, first_run, passes, first_pass>>

\* if let for while let: run_propagation may return with coordinates queued
PropagateReturnEarly ==
    /\ pc = "propagate"
    /\ pc' = "select"
    /\ passes' = passes + 1
    /\ first_pass' = IF passes = 0
                     THEN [order |-> unresolved_set, space |-> space]
                     ELSE first_pass
    /\ UNCHANGED <<space, unresolved_set, to_propagate, to_collapse, init_space,
                   observed, tie_draws, observe_draws, collapse_called,
                   prop_resolved, first_run, pass_queued, shrinks,
                   collapse_calls>>

\* run_propagation returns when the queue is empty
PropagateReturn ==
    /\ pc = "propagate"
    /\ to_propagate = <<>>
    /\ pc' = "select"
    /\ passes' = passes + 1
    /\ first_pass' = IF passes = 0
                     THEN [order |-> unresolved_set, space |-> space]
                     ELSE first_pass
    /\ UNCHANGED <<space, unresolved_set, to_propagate, to_collapse, init_space,
                   observed, tie_draws, observe_draws, collapse_called,
                   prop_resolved, first_run, pass_queued, shrinks,
                   collapse_calls>>

\* find_next_to_collapse returns Some(coordinate)
FindSome ==
    /\ pc = "select"
    /\ LET scan == Scan(unresolved_set, space, Len(unresolved_set))
       IN  /\ scan.lowest_entropy_set # <<>>
           /\ unresolved_set' = Retain(unresolved_set, scan.resolved_set)
           /\ \E index \in 0..(Len(scan.lowest_entropy_set) - 1) :
                 /\ to_collapse' = scan.lowest_entropy_set[index + 1]
                 /\ tie_draws' = Append(tie_draws, index)
    /\ pc' = "observe"
    /\ UNCHANGED <<space, to_propagate, init_space, observed, observe_draws,
                   collapse_called, prop_resolved, first_run, pass_queued,
                   passes, shrinks, collapse_calls, first_pass>>

\* find_next_to_collapse returns None and collapse returns
FindNone ==
    /\ pc = "select"
    /\ LET scan == Scan(unresolved_set, space, Len(unresolved_set))
       IN  /\ scan.lowest_entropy_set = <<>>
           /\ unresolved_set' = Retain(unresolved_set, scan.resolved_set)
    /\ pc' = "done"
    /\ UNCHANGED <<space, to_propagate, to_collapse, init_space, observed,
                   tie_draws, observe_draws, collapse_called, prop_resolved,
                   first_run, pass_queued, passes, shrinks, collapse_calls,
                   first_pass>>

\* body of the main loop up to the call of run_propagation
Observe ==
    /\ pc = "observe"
    /\ LET neighbors == SpaceNeighbors(space, to_collapse, NeighborOffsets)
           neighbor_states == NeighborStates(space, neighbors)
       IN  /\ \E chosen \in RuleObserve(space[to_collapse], neighbor_states) :
                 /\ space' = [space EXCEPT ![to_collapse] = chosen]
                 /\ observe_draws' = Append(observe_draws, chosen)
                 /\ shrinks' = IF Entropy(chosen) < Entropy(space[to_collapse])
                               THEN shrinks + 1 ELSE shrinks
           /\ to_propagate' = ObservedNeighbors(neighbors)
           /\ pass_queued' = Range(ObservedNeighbors(neighbors))
    /\ observed' = Append(observed, to_collapse)
    /\ pc' = "propagate"
    /\ UNCHANGED <<unresolved_set, to_collapse, init_space, tie_draws,
                   collapse_called, prop_resolved, first_run, passes,
                   collapse_calls, first_pass>>

Next ==
    \/ Seed
    \/ PropagateSkip
    \/ PropagateCollapse
    \/ PropagateReturn
    \/ FindSome
    \/ FindNone
    \/ Observe

Spec == Init /\ [][Next]_vars

\* collapse runs to completion once called: the driver is single-threaded
\* and never suspends
FairSpec == Spec /\ WF_vars(Next)

\* a second call of collapse on a copy of the same initial space: its sets
\* and queue are built afresh; the first call's draws and result are kept
Restart ==
    /\ pc = "done"
    /\ ~first_run.valid
    /\ first_run' = [valid |-> TRUE, ties |-> tie_draws,
                     choices |-> observe_draws, final |-> space,
                     pass |-> NoPass(init_space)]
    /\ space' = init_space
    /\ unresolved_set' = <<>>
    /\ to_propagate' = <<>>
    /\ to_collapse' = NoCoord
    /\ pc' = "seed"
    /\ observed' = <<>>
    /\ tie_draws' = <<>>
    /\ observe_draws' = <<>>
    /\ collapse_called' = {}
    /\ prop_resolved' = {}
    /\ pass_queued' = {}
    /\ passes' = 0
    /\ shrinks' = 0
    /\ collapse_calls' = 0
    /\ first_pass' = NoPass(init_space)
    /\ UNCHANGED init_space

NextTwoRuns == Next \/ Restart

SpecTwoRuns == Init /\ [][NextTwoRuns]_vars

\* the seeding and the initial pass of collapse repeated on a copy of the same
\* initial space; the first pass's seed order and result are kept
RestartPass ==
    /\ pc = "select"
    /\ passes = 1
    /\ ~first_run.valid
    /\ first_run' = [valid |-> TRUE, ties |-> <<>>, choices |-> <<>>,
                     final |-> space, pass |-> first_pass]
    /\ space' = init_space
    /\ unresolved_set' = <<>>
    /\ to_propagate' = <<>>
    /\ to_collapse' = NoCoord
    /\ pc' = "seed"
    /\ collapse_called' = {}
    /\ prop_resolved' = {}
    /\ pass_queued' = {}
    /\ passes' = 0
    /\ shrinks' = 0
    /\ collapse_calls' = 0
    /\ first_pass' = NoPass(init_space)
    /\ UNCHANGED <<init_space, observed, tie_draws, observe_draws>>

NextTwoPasses ==
    \/ Seed
    \/ PropagateSkip
    \/ PropagateCollapse
    \/ PropagateReturn
    \/ RestartPass

SpecTwoPasses == Init /\ [][NextTwoPasses]_vars

\* ---------------------------------------------------------------- properties
TypeOK ==
    /\ pc \in {"seed", "propagate", "select", "observe", "done"}
    /\ \A c \in DOMAIN space : space[c] \subseteq Values
    /\ DOMAIN space = DOMAIN init_space

\* rule.collapse applied to cell c with its neighbors' current states
Recollapsed(sp, c) ==
    RuleCollapse(sp[c], NeighborStates(sp, SpaceNeighbors(sp, c, NeighborOffsets)))

Stable(sp, c) == Recollapsed(sp, c) = sp[c]

AllResolved(sp) == \A c \in DOMAIN sp : Entropy(sp[c]) = 0

NoRepeat(seq) == \A i, j \in DOMAIN seq : seq[i] = seq[j] => i = j

\* C1: every execution of collapse eventually returns
C1_Terminates == <>(pc = "done")

C1_Witness == pc = "done" /\ observed # <<>> /\ prop_resolved # {}

\* C2: when collapse returns, every cell of the space has entropy 0
C2_AllResolvedOnReturn == pc = "done" => AllResolved(space)

C2_Witness == pc = "done" /\ ~AllResolved(init_space) /\ observed # <<>>

\* C3 as stated: after collapse returns, applying rule.collapse to any cell
\* (resolved, pre-seeded and observed ones included) leaves it unchanged
C3_FixedPointOnReturn == pc = "done" => \A c \in DOMAIN space : Stable(space, c)

\* C3 amended: whenever a propagation pass has drained, applying rule.collapse
\* to any cell whose entropy is still > 0 leaves that cell unchanged
C3_UnresolvedStableAfterPass ==
    pc \in {"select", "done"} =>
        \A c \in DOMAIN space : Entropy(space[c]) > 0 => Stable(space, c)

C3_Witness ==
    /\ pc = "select"
    /\ \E c \in DOMAIN space :
          Entropy(space[c]) > 0 /\ Entropy(space[c]) < Entropy(init_space[c])

\* C4: rule.observe is only called on a cell whose entropy is > 0, no cell is
\* observed twice, and on return the number of observe calls is the number of
\* initially unresolved cells that rule.collapse did not bring to entropy 0
C4_ObserveCount ==
    /\ pc = "observe" => Entropy(space[to_collapse]) > 0
    /\ NoRepeat(observed)
    /\ pc = "done" =>
          Len(observed) = Cardinality(SeedUnresolved(init_space) \ prop_resolved)

C4_Witness == pc = "done" /\ Len(observed) >= 2 /\ prop_resolved # {}

\* C5: if every cell is resolved (at most one possibility left) when collapse
\* is called, neither rule.observe nor rule.collapse is ever called and every
\* cell keeps its state
C5_AlreadyResolved ==
    (\A c \in DOMAIN init_space : Cardinality(init_space[c]) <= 1) =>
        /\ observed = <<>>
        /\ collapse_called = {}
        /\ space = init_space
        /\ pc # "observe"

C5_Witness ==
    /\ pc = "done"
    /\ Cardinality(DOMAIN init_space) >= 2
    /\ \A c \in DOMAIN init_space : Cardinality(init_space[c]) <= 1

ABABA == [c \in 0..4 |-> IF c % 2 = 0 THEN {"A"} ELSE {"B"}]

BABAB == [c \in 0..4 |-> IF c % 2 = 0 THEN {"B"} ELSE {"A"}]

\* C6: the chain of five {A, B} cells always ends as A-B-A-B-A or B-A-B-A-B,
\* all entropies 0 and no two adjacent cells equal
C6_Alternates ==
    (init_space = AllAB5 /\ pc = "done") =>
        /\ space \in {ABABA, BABAB}
        /\ AllResolved(space)
        /\ \A c \in 0..3 : space[c] # space[c + 1]

C6_Witness == init_space = AllAB5 /\ pc = "done" /\ space = BABAB

\* C7: with cell 0 pre-collapsed to {A} the chain is A-B-A-B-A as soon as the
\* initial propagation pass has drained, and rule.observe is never called
C7_SeededDeterministic ==
    (init_space = Seeded5 /\ pc \in {"select", "observe", "done"}) =>
        space = ABABA /\ observed = <<>> /\ pc # "observe"

C7_Witness == init_space = Seeded5 /\ pc = "done" /\ space = ABABA

\* C8 as stated: with cells 0 and 2 pre-seeded to {A}, cell 1 ends empty and
\* no cell has entropy > 0
C8_MiddleEmpty ==
    (init_space = Seeded3 /\ pc = "done") => space[1] = {} /\ AllResolved(space)

\* C8 amended: with cells 0 and 2 pre-seeded to {A}, cell 1 ends as {B}
\* (entropy 0, not empty) and no cell has entropy > 0
C8_MiddleIsB ==
    (init_space = Seeded3 /\ pc = "done") =>
        /\ space = [c \in 0..2 |-> IF c = 1 THEN {"B"} ELSE {"A"}]
        /\ AllResolved(space)

C8_Witness == init_space = Seeded3 /\ pc = "done" /\ collapse_called = {1}

\* C9: two runs from the same initial space that receive the same tie-break
\* indices and the same observe choices end in the same state of every cell
C9_Deterministic ==
    (/\ pc = "done"
     /\ first_run.valid
     /\ first_run.ties = tie_draws
     /\ first_run.choices = observe_draws) => first_run.final = space

\* C10: no step of the driver raises the entropy of any cell
C10_EntropyMonotone ==
    [][\A c \in DOMAIN space : Entropy(space'[c]) <= Entropy(space[c])]_vars

C10_Witness ==
    \E c, d \in DOMAIN space :
        /\ c \in prop_resolved
        /\ d \in {observed[i] : i \in DOMAIN observed}
        /\ Entropy(space[c]) < Entropy(init_space[c])
        /\ Entropy(space[d]) < Entropy(init_space[d])

\* the cells of entropy > 0 and those of least entropy among them
Undecided(sp) == {c \in DOMAIN sp : Entropy(sp[c]) > 0}

Lowest(sp) ==
    {c \in Undecided(sp) : \A d \in Undecided(sp) : Entropy(sp[c]) <= Entropy(sp[d])}

\* C11: the coordinate find_next_to_collapse returns has entropy > 0 and the
\* least entropy among all cells of entropy > 0, and every cell tied at that
\* minimum can be returned
C11_LowestSelected ==
    /\ pc = "observe" => to_collapse \in Lowest(space)
    /\ pc = "select" =>
          \A d \in Lowest(space) : ENABLED (FindSome /\ to_collapse' = d)

C11_Witness ==
    /\ pc = "observe"
    /\ Cardinality(Lowest(space)) >= 2
    /\ Undecided(space) # Lowest(space)

\* C12 as stated: at every point after seeding a coordinate is in the
\* unresolved set if and only if its cell's entropy is > 0
C12_UnresolvedIffUndecided ==
    pc # "seed" => Range(unresolved_set) = Undecided(space)

\* C12 amended: each time find_next_to_collapse has returned, a coordinate is
\* in the unresolved set if and only if its cell's entropy is > 0
C12_UnresolvedExactAfterSelect ==
    pc \in {"observe", "done"} => Range(unresolved_set) = Undecided(space)

C12_Witness ==
    /\ pc = "observe"
    /\ prop_resolved # {}
    /\ Len(unresolved_set) < Cardinality(Undecided(init_space))

\* C13 as stated: each time run_propagation returns, every cell that was in
\* the work queue during that run (skipped ones included) is unchanged by
\* rule.collapse applied with its neighbors' current states
C13_QueuedConsistent ==
    pc = "select" => \A c \in pass_queued : Stable(space, c)

\* C13 amended: each time run_propagation returns, every cell that was in the
\* work queue during that run and still has entropy > 0 is unchanged by
\* rule.collapse applied with its neighbors' current states
C13_QueuedUndecidedConsistent ==
    pc = "select" =>
        \A c \in pass_queued : Entropy(space[c]) > 0 => Stable(space, c)

C13_Witness ==
    /\ pc = "select"
    /\ passes >= 2
    /\ \E c \in pass_queued :
          Entropy(space[c]) > 0 /\ Entropy(space[c]) < Entropy(init_space[c])
    /\ \E c \in pass_queued : Entropy(space[c]) = 0

AllStable(sp) == \A c \in DOMAIN sp : Stable(sp, c)

\* C14 as stated: any two orderings of the initially seeded queue lead the
\* initial propagation pass to the same state of every cell
C14_OrderIndependent ==
    (first_run.valid /\ passes >= 1) => first_pass.space = first_run.pass.space

\* C14 amended: two orderings of the initially seeded queue whose passes both
\* end in a state that rule.collapse leaves unchanged at every cell end in
\* the same state
C14_OrderIndependentWhenConsistent ==
    (/\ first_run.valid
     /\ passes >= 1
     /\ AllStable(first_pass.space)
     /\ AllStable(first_run.pass.space)) => first_pass.space = first_run.pass.space

C14_Witness ==
    /\ first_run.valid
    /\ passes >= 1
    /\ first_pass.order # first_run.pass.order
    /\ AllStable(first_pass.space)
    /\ first_pass.space = first_run.pass.space
    /\ \E c, d \in DOMAIN space :
          /\ c # d
          /\ Entropy(first_pass.space[c]) < Entropy(init_space[c])
          /\ Entropy(first_pass.space[d]) < Entropy(init_space[d])

\* C15: rule.collapse is only invoked on a popped cell of entropy > 0; a
\* coordinate popped with entropy 0 is dropped without a call of the rule,
\* without a change of any cell and without anything being enqueued
C15_ResolvedSkipped ==
    [][/\ collapse_calls' # collapse_calls =>
            /\ pc = "propagate"
            /\ to_propagate # <<>>
            /\ Entropy(space[Head(to_propagate)]) > 0
       /\ (/\ pc = "propagate"
           /\ to_propagate # <<>>
           /\ Entropy(space[Head(to_propagate)]) = 0) =>
            /\ collapse_calls' = collapse_calls
            /\ collapse_called' = collapse_called
            /\ space' = space
            /\ to_propagate' = Tail(to_propagate)]_vars

C15_Witness ==
    /\ pc = "select"
    /\ collapse_calls >= 1
    /\ \E c \in pass_queued \ collapse_called :
          Entropy(space[c]) = 0 /\ ~Stable(space, c)

\* the coordinate c + delta when it exists and its cell has entropy > 0
PushedAt(sp, c, delta) ==
    IF (c + delta) \in DOMAIN sp /\ Entropy(sp[c + delta]) > 0
    THEN <<c + delta>>
    ELSE <<>>

RECURSIVE EntropySum(_, _)
EntropySum(sp, n) ==
    IF n = 0 THEN 0 ELSE Entropy(sp[n - 1]) + EntropySum(sp, n - 1)

TotalEntropy(sp) == EntropySum(sp, Cardinality(DOMAIN sp))

\* C17: the number of steps in which a cell's entropy decreases (shrinking
\* rule.collapse calls and rule.observe calls) never exceeds the sum of the
\* initial entropies of all cells
C17_ShrinksBounded == shrinks <= TotalEntropy(init_space)

C17_Witness ==
    /\ pc = "done"
    /\ observed # <<>>
    /\ shrinks > Len(observed) + 1
    /\ 2 * shrinks >= TotalEntropy(init_space)

\* C18: rule.observe is called only when the work queue is empty and exactly
\* one propagation pass has returned since the previous observe call (the
\* initial pass, for the first call)
C18_ObserveAfterDrain ==
    [][observed' # observed =>
          /\ to_propagate = <<>>
          /\ passes = Len(observed) + 1]_vars

C18_Witness ==
    /\ Len(observed) >= 2
    /\ passes = Len(observed)
    /\ collapse_calls > Cardinality(Undecided(init_space))
    /\ to_propagate # <<>>

\* C19: whenever a cell has been selected for observation, every cell that
\* still has entropy > 0 is unchanged by rule.collapse applied with its
\* neighbors' current states
C19_StableWhenSelected ==
    pc = "observe" => \A c \in Undecided(space) : Stable(space, c)

C19_Witness ==
    /\ pc = "observe"
    /\ passes >= 2
    /\ \E c \in Undecided(space) :
          c # to_collapse /\ Entropy(space[c]) < Entropy(init_space[c])

\* C20: after seeding every cell of entropy > 0 is in the unresolved set, the
\* unresolved set never gains a member, and a coordinate outside it has
\* entropy 0 after every further step
C20_UnresolvedCoversUndecided ==
    [][/\ pc' # "seed" => Undecided(space') \subseteq Range(unresolved_set')
       /\ pc # "seed" =>
            /\ Range(unresolved_set') \subseteq Range(unresolved_set)
            /\ \A c \in DOMAIN space \ Range(unresolved_set) :
                  Entropy(space'[c]) = 0]_vars

C20_Witness ==
    /\ pc = "propagate"
    /\ passes >= 1
    /\ Undecided(space) # {}
    /\ \E c \in Range(unresolved_set) : Entropy(space[c]) = 0
    /\ \E c \in Undecided(init_space) : c \notin Range(unresolved_set)

====
